---- MODULE Spec2Model ----
(***************************************************************************)
(* Model of the snake simulation core of gym-snake-rs (src/src/game.rs),   *)
(* driven as src/src/main.rs drives it: update, change_directions and      *)
(* toggle_progressive_speed called in any order on one Game value.         *)
(*                                                                         *)
(* Positions are pixel coordinates, multiples of size, as in the source.   *)
(* Time is counted in sixteenths of a second (1/16 s is exact in f64), and *)
(* intervals are exact fractions <<num, den>> of that unit.                *)
(***************************************************************************)
EXTENDS Integers, Sequences, FiniteSets, TLC

\* ---------------------------------------------------------------- bounds
\* number of simulation ticks a behaviour may fire
MaxTicks == 12
\* largest elapsed time handed to one update call, in 1/16 s
MaxDt == 2
\* number of ticks a behaviour of SpecTail may fire after the first apple
TailTicks == 3
\* largest score SpecSpeed starts a game with
MaxScore == 45
\* number of ticks a behaviour of SpecSpeed may fire
SpeedTicks == 1
\* the window SpecRespawn hands to gen_apple_coords, in cells
RespawnCols == 3
RespawnRows == 2

\* ------------------------------------------------------------- constants
size == 30
windowx == 480
windowy == 480
max_buffer_size == 2

Directions == {"Up", "Down", "Left", "Right"}
Buttons == Directions \cup {"P", "Other"}
\* the key events delivered to change_directions; a release is handled the
\* same way whatever the button, so one released button stands for all
ButtonEvents ==
    { <<"Press", b>> : b \in Buttons } \cup { <<"Release", "Up">> }
DtValues == 1..MaxDt

\* The fields of Game that the simulation reads or writes, and two records
\* of the run: ticks counts the simulation ticks fired so far (it bounds the
\* exploration), last_call is the last method called on the game, with the
\* key pressed or the fate of the dequeued input, and what the call did.
VARIABLES segments, direction, input_buffer, apple, score, game_over,
          progressive_speed, last_update_time, ticks, last_call

vars == <<segments, direction, input_buffer, apple, score, game_over,
          progressive_speed, last_update_time, ticks, last_call>>

Segment(px, py) == [x |-> px, y |-> py]

Call(o, a, r) == [op |-> o, arg |-> a, res |-> r]

\* ------------------------------------------------------------- Game::new
Init ==
    /\ segments = <<Segment(5 * size, 3 * size),
                    Segment(4 * size, 3 * size),
                    Segment(3 * size, 3 * size)>>
    /\ direction = "Right"
    /\ input_buffer = <<>>
    /\ apple = Segment(10 * size, 10 * size)
    /\ score = 0
    /\ game_over = FALSE
    /\ progressive_speed = TRUE
    /\ last_update_time = 0
    /\ ticks = 0
    /\ last_call = Call("new", "none", "none")

\* ------------------------------------------------------ check_directions
\* variant: a repeated direction is filtered out as well
check_directions_rejects_same(dir1, dir2) ==
    IF \/ (dir1 = "Down" /\ dir2 = "Up")
       \/ (dir1 = "Up" /\ dir2 = "Down")
       \/ (dir1 = "Left" /\ dir2 = "Right")
       \/ (dir1 = "Right" /\ dir2 = "Left")
       \/ dir1 = dir2
    THEN FALSE
    ELSE TRUE

check_directions(dir1, dir2) ==
    IF \/ (dir1 = "Down" /\ dir2 = "Up")
       \/ (dir1 = "Up" /\ dir2 = "Down")
       \/ (dir1 = "Left" /\ dir2 = "Right")
       \/ (dir1 = "Right" /\ dir2 = "Left")
    THEN FALSE
    ELSE TRUE

\* ------------------------------------------------------- speed / timing
Min(a, b) == IF a <= b THEN a ELSE b

\* update_interval = 1/15 s, in 1/16 s
update_interval == <<16, 15>>
\* base_speed = 1/8 s, in 1/16 s
base_speed == 2

\* variant: the multiplier is not capped
current_interval_uncapped(prog, sc) ==
    IF prog
    THEN <<base_speed * 20, 20 + sc>>
    ELSE update_interval

\* the interval update compares the accumulated time with:
\* base_speed / min(1 + score * 0.05, 3.0), the multiplier kept in 1/20ths
current_interval(prog, sc) ==
    IF prog
    THEN LET speed_multiplier == 20 + sc
             max_speed_multiplier == 60
             capped_multiplier == Min(speed_multiplier, max_speed_multiplier)
         IN  <<base_speed * 20, capped_multiplier>>
    ELSE update_interval

\* t < iv for a time t and a fraction iv
TimeBelow(t, iv) == t * iv[2] < iv[1]

\* ---------------------------------------------------- check_if_collision
SeqContains(s, c) == \E i \in 1..Len(s) : s[i] = c

\* variant: only the window bounds are checked
check_if_collision_walls_only(segs) ==
    LET head == segs[1]
    IN  head.x < 0 \/ head.y < 0 \/ head.x >= windowx \/ head.y >= windowy

\* variant: the last cell is not looked at (the tail is about to move away)
check_if_collision_spares_tail(segs) ==
    LET head == segs[1]
    IN  IF head.x < 0 \/ head.y < 0 \/ head.x >= windowx \/ head.y >= windowy
        THEN TRUE
        ELSE SeqContains(SubSeq(segs, 2, Len(segs) - 1), head)

check_if_collision(segs) ==
    LET head == segs[1]
    IN  IF head.x < 0 \/ head.y < 0 \/ head.x >= windowx \/ head.y >= windowy
        THEN TRUE
        ELSE SeqContains(SubSeq(segs, 2, Len(segs)), head)

\* ------------------------------------------------------ gen_apple_coords
\* variant: the candidate is compared with the eaten apple only
gen_apple_coords_ignores_body(segs, old_apple) ==
    { c \in { Segment(gx * size, gy * size) :
                gx \in 0..((windowx \div size) - 1),
                gy \in 0..((windowy \div size) - 1) } :
        c # old_apple }

\* the cells on which the sampling loop can stop
gen_apple_coords(segs, old_apple) ==
    LET grid_width == windowx \div size
        grid_height == windowy \div size
    IN  { c \in { Segment(gx * size, gy * size) :
                    gx \in 0..(grid_width - 1), gy \in 0..(grid_height - 1) } :
            ~SeqContains(segs, c) /\ c # old_apple }

\* the candidates one pass of the loop can draw in a window wx by wy
Candidates(wx, wy) ==
    LET grid_width == wx \div size
        grid_height == wy \div size
    IN  { Segment(gx * size, gy * size) :
            gx \in 0..(grid_width - 1), gy \in 0..(grid_height - 1) }

\* variant: the candidate is compared with the eaten apple only
CandidateAccepted_ignores_body(segs, old_apple, candidate) ==
    candidate # old_apple

\* the test that ends the loop
CandidateAccepted(segs, old_apple, candidate) ==
    ~SeqContains(segs, candidate) /\ candidate # old_apple

\* one pass of the loop, drawing candidate: the apple is placed and the
\* loop left, or the loop goes round again
gen_apple_coords_pass(candidate) ==
    /\ last_call.op = "gen_apple_coords"
    /\ last_call.res = "sampling"
    /\ IF CandidateAccepted(segments, apple, candidate)
       THEN /\ apple' = candidate
            /\ last_call' = Call("gen_apple_coords", last_call.arg, "placed")
       ELSE /\ last_call' = Call("gen_apple_coords", "retried", "sampling")
            /\ UNCHANGED apple
    /\ UNCHANGED <<segments, direction, input_buffer, score, game_over,
                   progressive_speed, last_update_time, ticks>>

\* ---------------------------------------------------------- Game::update
\* variant: the vertical axis is taken to point up
NewHead_y_up(head, dir) ==
    CASE dir = "Up"    -> Segment(head.x, head.y + size)
      [] dir = "Down"  -> Segment(head.x, head.y - size)
      [] dir = "Left"  -> Segment(head.x - size, head.y)
      [] dir = "Right" -> Segment(head.x + size, head.y)

NewHead(head, dir) ==
    CASE dir = "Up"    -> Segment(head.x, head.y - size)
      [] dir = "Down"  -> Segment(head.x, head.y + size)
      [] dir = "Left"  -> Segment(head.x - size, head.y)
      [] dir = "Right" -> Segment(head.x + size, head.y)

\* direction after the input buffer's front entry, if any, was processed
\* variant: the dequeued direction is adopted without check_directions
NextDirection_unchecked(dir, buf) ==
    IF buf # <<>> THEN Head(buf) ELSE dir

\* the direction the snake moves in this tick
NextDirection(dir, buf) ==
    IF buf # <<>> /\ check_directions(dir, Head(buf)) THEN Head(buf) ELSE dir

\* variant: the whole buffer is consumed by one tick
PopFront_clears(buf) == <<>>

\* input_buffer.pop_front()
PopFront(buf) == IF buf = <<>> THEN buf ELSE Tail(buf)

\* what became of the entry popped from the buffer (recorded in last_call)
Dequeued(dir, buf) ==
    IF buf = <<>> THEN "none"
    ELSE IF check_directions(dir, Head(buf)) THEN "adopted" ELSE "discarded"

\* variant: the tail is removed on every tick that does not collide
update_resolve_always_pops(moved, deq) ==
    IF check_if_collision(moved)
    THEN /\ game_over' = TRUE
         /\ segments' = moved
         /\ last_call' = Call("update", deq, "collide")
         /\ UNCHANGED <<apple, score>>
    ELSE IF moved[1].x = apple.x /\ moved[1].y = apple.y
    THEN /\ \E c \in gen_apple_coords(moved, apple) : apple' = c
         /\ score' = score + 1
         /\ segments' = SubSeq(moved, 1, Len(moved) - 1)
         /\ last_call' = Call("update", deq, "eat")
         /\ UNCHANGED game_over
    ELSE /\ segments' = SubSeq(moved, 1, Len(moved) - 1)
         /\ last_call' = Call("update", deq, "move")
         /\ UNCHANGED <<apple, score, game_over>>

\* variant: a collision takes the new head back off the body
update_resolve_rolls_back(moved, deq) ==
    IF check_if_collision(moved)
    THEN /\ game_over' = TRUE
         /\ segments' = Tail(moved)
         /\ last_call' = Call("update", deq, "collide")
         /\ UNCHANGED <<apple, score>>
    ELSE IF moved[1].x = apple.x /\ moved[1].y = apple.y
    THEN /\ \E c \in gen_apple_coords(moved, apple) : apple' = c
         /\ score' = score + 1
         /\ segments' = moved
         /\ last_call' = Call("update", deq, "eat")
         /\ UNCHANGED game_over
    ELSE /\ segments' = SubSeq(moved, 1, Len(moved) - 1)
         /\ last_call' = Call("update", deq, "move")
         /\ UNCHANGED <<apple, score, game_over>>

\* collision check and apple resolution on the body with its new head
update_resolve(moved, deq) ==
    IF check_if_collision(moved)
    THEN /\ game_over' = TRUE
         /\ segments' = moved
         /\ last_call' = Call("update", deq, "collide")
         /\ UNCHANGED <<apple, score>>
    ELSE IF moved[1].x = apple.x /\ moved[1].y = apple.y
    THEN /\ \E c \in gen_apple_coords(moved, apple) : apple' = c
         /\ score' = score + 1
         /\ segments' = moved
         /\ last_call' = Call("update", deq, "eat")
         /\ UNCHANGED game_over
    ELSE /\ segments' = SubSeq(moved, 1, Len(moved) - 1)
         /\ last_call' = Call("update", deq, "move")
         /\ UNCHANGED <<apple, score, game_over>>

\* variant: the body moves before the input buffer is processed
update_step_moves_first ==
    LET dir == NextDirection(direction, input_buffer)
        deq == Dequeued(direction, input_buffer)
        moved == <<NewHead(segments[1], direction)>> \o segments
    IN  /\ ticks < MaxTicks
        /\ ticks' = ticks + 1
        /\ last_update_time' = 0
        /\ input_buffer' = PopFront(input_buffer)
        /\ direction' = dir
        /\ UNCHANGED progressive_speed
        /\ update_resolve(moved, deq)

\* one simulation tick: reset the timer, process one input, move, resolve
update_step ==
    LET dir == NextDirection(direction, input_buffer)
        deq == Dequeued(direction, input_buffer)
        moved == <<NewHead(segments[1], dir)>> \o segments
    IN  /\ ticks < MaxTicks
        /\ ticks' = ticks + 1
        /\ last_update_time' = 0
        /\ input_buffer' = PopFront(input_buffer)
        /\ direction' = dir
        /\ UNCHANGED progressive_speed
        /\ update_resolve(moved, deq)

\* variant: the next input is taken from the buffer before the timing check
update_playing_pops_early(dt) ==
    IF TimeBelow(last_update_time + dt,
                 current_interval(progressive_speed, score))
    THEN /\ last_update_time' = last_update_time + dt
         /\ input_buffer' = PopFront(input_buffer)
         /\ direction' = NextDirection(direction, input_buffer)
         /\ last_call' = Call("update", "none", "wait")
         /\ UNCHANGED <<segments, apple, score, game_over,
                        progressive_speed, ticks>>
    ELSE update_step

\* update while the game is running: accumulate the time, tick when due
update_playing(dt) ==
    IF TimeBelow(last_update_time + dt,
                 current_interval(progressive_speed, score))
    THEN /\ last_update_time' = last_update_time + dt
         /\ last_call' = Call("update", "none", "wait")
         /\ UNCHANGED <<segments, direction, input_buffer, apple, score,
                        game_over, progressive_speed, ticks>>
    ELSE update_step

\* variant: no early return when the game is over
update_unguarded(dt) == update_playing(dt)

\* variant: the early return clears the flag
update_resumes(dt) ==
    IF game_over
    THEN /\ game_over' = FALSE
         /\ last_call' = Call("update", "none", "over")
         /\ UNCHANGED <<segments, direction, input_buffer, apple, score,
                        progressive_speed, last_update_time, ticks>>
    ELSE update_playing(dt)

update(dt) ==
    IF game_over
    THEN /\ last_call' = Call("update", "none", "over")
         /\ UNCHANGED <<segments, direction, input_buffer, apple, score,
                        game_over, progressive_speed, last_update_time, ticks>>
    ELSE update_playing(dt)

\* ----------------------------------------- Game::toggle_progressive_speed
\* variant: the toggle also restarts the tick timer
toggle_resets_timer ==
    /\ progressive_speed' = ~progressive_speed
    /\ last_update_time' = 0
    /\ last_call' = Call("toggle_progressive_speed", "none", "toggled")
    /\ UNCHANGED <<segments, direction, input_buffer, apple, score,
                   game_over, ticks>>

toggle_progressive_speed ==
    /\ progressive_speed' = ~progressive_speed
    /\ last_call' = Call("toggle_progressive_speed", "none", "toggled")
    /\ UNCHANGED <<segments, direction, input_buffer, apple, score,
                   game_over, last_update_time, ticks>>

\* ----------------------------------------------- Game::change_directions
\* the direction a pressed direction is validated against
Reference(dir, buf) == IF buf = <<>> THEN dir ELSE buf[Len(buf)]

\* variant: the buffer is never trimmed
Enqueue_no_cap(dir, buf, p_dir) ==
    IF check_directions(Reference(dir, buf), p_dir)
    THEN Append(buf, p_dir)
    ELSE buf

\* variant: a full buffer refuses the new entry (the source's "Method 2")
Enqueue_hard_cap(dir, buf, p_dir) ==
    IF check_directions(Reference(dir, buf), p_dir)
       /\ Len(buf) < max_buffer_size
    THEN Append(buf, p_dir)
    ELSE buf

\* the buffer after a direction key was pressed
Enqueue(dir, buf, p_dir) ==
    LET pushed == IF check_directions(Reference(dir, buf), p_dir)
                  THEN Append(buf, p_dir)
                  ELSE buf
    IN  IF Len(pushed) > max_buffer_size THEN Tail(pushed) ELSE pushed

\* what the press did to the buffer (recorded in last_call)
EnqueueResult(dir, buf, p_dir) ==
    IF ~check_directions(Reference(dir, buf), p_dir) THEN "rejected"
    ELSE IF Len(buf) + 1 > max_buffer_size THEN "pushed_dropped"
    ELSE "pushed"

change_directions(state, button) ==
    IF state = "Press"
    THEN IF button = "P"
         \* the P key calls toggle_progressive_speed and returns
         THEN toggle_progressive_speed
         ELSE IF button \in Directions
         THEN /\ input_buffer' = Enqueue(direction, input_buffer, button)
              /\ last_call' = Call("change_directions", button,
                                   EnqueueResult(direction, input_buffer, button))
              /\ UNCHANGED <<segments, direction, apple, score, game_over,
                             progressive_speed, last_update_time, ticks>>
         ELSE /\ last_call' = Call("change_directions", "none", "ignored")
              /\ UNCHANGED <<segments, direction, input_buffer, apple, score,
                             game_over, progressive_speed, last_update_time,
                             ticks>>
    ELSE /\ last_call' = Call("change_directions", "none", "ignored")
         /\ UNCHANGED <<segments, direction, input_buffer, apple, score,
                        game_over, progressive_speed, last_update_time, ticks>>

\* get_current_speed_info: <<ticks per 1/16 s as a fraction, mode flag>>.
\* Its multiplier is 1 + score/10 capped at 4, kept in 1/10ths.
get_current_speed_info ==
    LET interval == IF progressive_speed
                    THEN <<base_speed * 10, Min(10 + score, 40)>>
                    ELSE update_interval
    IN  <<(<<interval[2], interval[1]>>), progressive_speed>>

\* ------------------------------------------------------------------ Next
Update == \E dt \in DtValues : update(dt)
ChangeDirections ==
    \E args \in ButtonEvents : change_directions(args[1], args[2])
ToggleProgressiveSpeed == toggle_progressive_speed

Next == Update \/ ChangeDirections \/ ToggleProgressiveSpeed

Spec == Init /\ [][Next]_vars

\* ------------------------------------------- the game after its first apples
\* The states Spec reaches with its last tick: the snake came straight down
\* onto the first apple and grew to four cells, and the apple respawned in
\* cell a.
AfterFirstApple(a) ==
    /\ segments = <<Segment(10 * size, 10 * size),
                    Segment(10 * size, 9 * size),
                    Segment(10 * size, 8 * size),
                    Segment(10 * size, 7 * size)>>
    /\ direction = "Down"
    /\ input_buffer = <<>>
    /\ apple = a
    /\ score = 1
    /\ game_over = FALSE
    /\ progressive_speed = TRUE
    /\ last_update_time = 0
    /\ last_call = Call("update", "none", "eat")

\* The state that follows AfterFirstApple(Segment(11 * size, 10 * size))
\* when Right is pressed and one tick fires: the snake ate the second apple
\* and grew to five cells, and the apple respawned in the corner.
AfterSecondApple ==
    /\ segments = <<Segment(11 * size, 10 * size),
                    Segment(10 * size, 10 * size),
                    Segment(10 * size, 9 * size),
                    Segment(10 * size, 8 * size),
                    Segment(10 * size, 7 * size)>>
    /\ direction = "Right"
    /\ input_buffer = <<>>
    /\ apple = Segment(0, 0)
    /\ score = 2
    /\ game_over = FALSE
    /\ progressive_speed = TRUE
    /\ last_update_time = 0
    /\ last_call = Call("update", "adopted", "eat")

\* either game, with the apple far away and TailTicks ticks left to fire
InitTail ==
    /\ AfterFirstApple(Segment(0, 0)) \/ AfterSecondApple
    /\ ticks = MaxTicks - TailTicks

SpecTail == InitTail /\ [][Next]_vars

\* ------------------------------------------------- the game at any score
\* The i-th cell (from 0) of the path that runs along the rows of the
\* window from its top-left corner, left to right and back.
SerpentineCell(i) ==
    LET grid_width == windowx \div size
        row == i \div grid_width
        col == IF row % 2 = 0
               THEN i % grid_width
               ELSE grid_width - 1 - (i % grid_width)
    IN  Segment(col * size, row * size)

\* a body of n cells on that path, the tail in the corner
SerpentineBody(n) == [k \in 1..n |-> SerpentineCell(n - k)]

\* the direction of the move that brought the head of that body to its cell
SerpentineDirection(n) ==
    LET grid_width == windowx \div size
    IN  IF (n - 1) % grid_width = 0 THEN "Down"
        ELSE IF ((n - 1) \div grid_width) % 2 = 0 THEN "Right"
        ELSE "Left"

\* A running game for every score up to MaxScore: the snake has eaten that
\* many apples and lies along the rows, the apple is in the bottom-left
\* corner, and SpeedTicks ticks are left to fire.
InitSpeed ==
    \E sc \in 0..MaxScore :
        /\ score = sc
        /\ segments = SerpentineBody(3 + sc)
        /\ direction = SerpentineDirection(3 + sc)
        /\ input_buffer = <<>>
        /\ apple = Segment(0, windowy - size)
        /\ game_over = FALSE
        /\ progressive_speed = TRUE
        /\ last_update_time = 0
        /\ ticks = MaxTicks - SpeedTicks
        /\ last_call = Call("update", "none", "move")

SpecSpeed == InitSpeed /\ [][Next]_vars

\* ------------------------------------------------- the respawn loop alone
\* gen_apple_coords as update calls it, in a window of RespawnCols by
\* RespawnRows cells: the body is any snake that fits the window, four cells
\* or longer (three cells and the head just inserted), and the eaten apple
\* is under the head.
RespawnWindowX == RespawnCols * size
RespawnWindowY == RespawnRows * size

Adjacent(c, d) ==
    \/ (c.x = d.x /\ (c.y - d.y = size \/ d.y - c.y = size))
    \/ (c.y = d.y /\ (c.x - d.x = size \/ d.x - c.x = size))

\* the snakes of n cells in the window, tail first while they are built
RECURSIVE TailFirstWalks(_)
TailFirstWalks(n) ==
    IF n = 1
    THEN { <<c>> : c \in Candidates(RespawnWindowX, RespawnWindowY) }
    ELSE UNION { { Append(w, c) :
                     c \in { d \in Candidates(RespawnWindowX, RespawnWindowY) :
                               Adjacent(d, w[n - 1]) /\ ~SeqContains(w, d) } } :
                 w \in TailFirstWalks(n - 1) }

Reversed(w) == [k \in 1..Len(w) |-> w[Len(w) + 1 - k]]

RespawnBodies ==
    UNION { { Reversed(w) : w \in TailFirstWalks(n) } :
            n \in 4..(RespawnCols * RespawnRows) }

\* the direction of the move from cell c to the adjacent cell d
MoveDirection(c, d) ==
    IF d.y < c.y THEN "Up"
    ELSE IF d.y > c.y THEN "Down"
    ELSE IF d.x < c.x THEN "Left"
    ELSE "Right"

InitRespawn ==
    \E body \in RespawnBodies :
        /\ segments = body
        /\ direction = MoveDirection(body[2], body[1])
        /\ input_buffer = <<>>
        /\ apple = body[1]
        /\ score = Len(body) - 4
        /\ game_over = FALSE
        /\ progressive_speed = TRUE
        /\ last_update_time = 0
        /\ ticks = 0
        /\ last_call = Call("gen_apple_coords", "none", "sampling")

GenAppleCoordsPass ==
    \E candidate \in Candidates(RespawnWindowX, RespawnWindowY) :
        gen_apple_coords_pass(candidate)

\* the random source is fair: no cell is left out for ever
FairSampling ==
    \A candidate \in Candidates(RespawnWindowX, RespawnWindowY) :
        WF_vars(gen_apple_coords_pass(candidate))

SpecRespawn == InitRespawn /\ [][GenAppleCoordsPass]_vars /\ FairSampling

\* ------------------------------------------------- vocabulary of claims
Opposite(d) ==
    CASE d = "Up"    -> "Down"
      [] d = "Down"  -> "Up"
      [] d = "Left"  -> "Right"
      [] d = "Right" -> "Left"

\* the cell one grid step from c in direction d (y grows downwards)
Shifted(c, d) ==
    CASE d = "Up"    -> [x |-> c.x, y |-> c.y - size]
      [] d = "Down"  -> [x |-> c.x, y |-> c.y + size]
      [] d = "Left"  -> [x |-> c.x - size, y |-> c.y]
      [] d = "Right" -> [x |-> c.x + size, y |-> c.y]

\* this step is an update call that fired a simulation tick
TickFired == ticks' = ticks + 1

\* this step is a press of direction key d
Pressed(d) == last_call'.op = "change_directions" /\ last_call'.arg = d

\* this step is a call of update
UpdateCalled == last_call'.op = "update"

\* --------------------------------------------------------------- claims

\* C1: once game_over is true, every call of update, whatever the elapsed
\* time and whatever calls of change_directions and toggle_progressive_speed
\* came before it, leaves the body, the score and the apple unchanged.
GameOverUpdateIsNoop ==
    [][(game_over /\ UpdateCalled)
         => (segments' = segments /\ score' = score /\ apple' = apple)]_vars

\* update was called on a game that was already over
GameOverUpdateIsNoop_Witness ==
    game_over /\ last_call = Call("update", "none", "over")

\* C2: game_over never goes back from true to false, whatever call follows
\* (so the transition Playing -> GameOver is taken at most once).
GameOverIsFinal == [][game_over => game_over']_vars

\* a direction was queued after the game ended, and the game is still over
GameOverIsFinal_Witness ==
    /\ game_over
    /\ last_call.op = "change_directions"
    /\ last_call.res = "pushed"

\* C3: a pressed direction is appended to the back of the queue iff it is
\* not the opposite of the reference (the current direction when the queue
\* is empty, the queue's last entry otherwise); otherwise the queue is as
\* it was. An append that makes a third entry is followed by the removal of
\* the front one, so the pressed direction is the last entry either way.
EnqueueIffNotOpposite ==
    [][\A cand \in Directions :
         Pressed(cand) =>
           LET reference == IF input_buffer = <<>>
                            THEN direction
                            ELSE input_buffer[Len(input_buffer)]
               appended == Append(input_buffer, cand)
           IN  IF cand = Opposite(reference)
               THEN input_buffer' = input_buffer
               ELSE /\ input_buffer' # <<>>
                    /\ input_buffer'[Len(input_buffer')] = cand
                    /\ input_buffer' = IF Len(appended) > 2
                                       THEN Tail(appended)
                                       ELSE appended]_vars

\* Down is refused because the queue ends with Up, though the snake faces
\* Right
EnqueueIffNotOpposite_Witness ==
    /\ direction = "Right"
    /\ input_buffer = <<"Up">>
    /\ last_call = Call("change_directions", "Down", "rejected")

\* C4: the input queue never holds more than max_buffer_size = 2 entries.
BufferBounded == Len(input_buffer) <= 2

\* a press on a full queue, after at least one tick
BufferBounded_Witness ==
    /\ Len(input_buffer) = 2
    /\ ticks > 0
    /\ last_call.res = "pushed_dropped"

\* C5: the cap is applied after insertion: pressing c on a queue <<a, b>>
\* gives <<b, c>> when c is not the opposite of b, and a refused press
\* leaves the queue as it was.
SoftCapDropsOldest ==
    [][\A cand \in Directions :
         Pressed(cand) =>
           /\ Len(input_buffer) = 2 =>
                IF cand # Opposite(input_buffer[2])
                THEN input_buffer' = <<input_buffer[2], cand>>
                ELSE input_buffer' = input_buffer
           /\ (input_buffer = <<>> /\ cand = Opposite(direction))
                => input_buffer' = input_buffer
           /\ (Len(input_buffer) = 1 /\ cand = Opposite(input_buffer[1]))
                => input_buffer' = input_buffer]_vars

\* <<Up, Left>> took Up and became <<Left, Up>>
SoftCapDropsOldest_Witness ==
    /\ input_buffer = <<"Left", "Up">>
    /\ last_call = Call("change_directions", "Up", "pushed_dropped")

\* C6: every entry dequeued at a tick is not the opposite of the direction
\* the snake faces when the entry is consumed.
DequeuedNeverReversal ==
    [][(TickFired /\ input_buffer # <<>>)
         => Head(input_buffer) # Opposite(direction)]_vars

\* C7: while the game is running the body has 3 + score cells; no step
\* shortens the body, the score changes by 0 or +1, and it changes by +1
\* exactly in the ticks that lengthen the body without ending the game.
LengthTracksScore ==
    [][/\ ~game_over => Len(segments) = 3 + score
       /\ ~game_over' => Len(segments') = 3 + score'
       /\ score' \in {score, score + 1}
       /\ Len(segments') >= Len(segments)
       /\ score' = score + 1
            <=> (~game_over' /\ Len(segments') = Len(segments) + 1)]_vars

\* the first apple was just eaten
LengthTracksScore_Witness ==
    ~game_over /\ score = 1 /\ last_call.res = "eat"

\* C8: the apple is on no cell of the body, in every state (right after a
\* respawn and in the GameOver state included).
AppleOffSnake == \A i \in 1..Len(segments) : segments[i] # apple

\* the apple was just respawned, in the cell next to the head
AppleOffSnake_Witness ==
    /\ last_call.res = "eat"
    /\ apple = [x |-> segments[1].x + size, y |-> segments[1].y]

\* C9: a tick that does not end the game puts the new head one cell from
\* the old head in the current direction, followed by the old body without
\* its last cell (score and apple unchanged) when the new head is not on the
\* apple, and by the whole old body (score + 1, apple moved) when it is.
TickBody ==
    [][(TickFired /\ ~game_over') =>
         LET head == Shifted(segments[1], direction')
         IN  IF head = apple
             THEN /\ segments' = <<head>> \o segments
                  /\ score' = score + 1
                  /\ apple' # apple
             ELSE /\ segments' =
                       <<head>> \o SubSeq(segments, 1, Len(segments) - 1)
                  /\ score' = score
                  /\ apple' = apple]_vars

\* the snake came down onto the first apple and kept its tail
TickBody_Witness ==
    /\ last_call.res = "eat"
    /\ Len(segments) = 4
    /\ segments[1] = [x |-> 10 * size, y |-> 10 * size]
    /\ segments[2] = [x |-> 10 * size, y |-> 9 * size]

\* C10: in a tick the input is dequeued before the body moves: the direction
\* after the tick is the dequeued one when it is not a reversal, and the new
\* head is one cell from the old head in that direction. From direction
\* Right with an empty queue, Left is refused and Up is queued, and the tick
\* that follows turns the snake Up and puts its head one cell above.
DequeueBeforeMove ==
    [][/\ TickFired =>
            /\ direction' =
                 IF input_buffer # <<>>
                    /\ Head(input_buffer) # Opposite(direction)
                 THEN Head(input_buffer)
                 ELSE direction
            /\ segments'[1] = Shifted(segments[1], direction')
       /\ (direction = "Right" /\ input_buffer = <<>> /\ Pressed("Left"))
            => input_buffer' = <<>>
       /\ (direction = "Right" /\ input_buffer = <<>> /\ Pressed("Up"))
            => input_buffer' = <<"Up">>
       /\ (direction = "Right" /\ input_buffer = <<"Up">> /\ TickFired)
            => /\ direction' = "Up"
               /\ segments'[1] = [x |-> segments[1].x,
                                   y |-> segments[1].y - size]]_vars

\* the first tick consumed the queued Up: the head is above where it started
DequeueBeforeMove_Witness ==
    /\ ticks = 1
    /\ direction = "Up"
    /\ segments[1] = [x |-> 5 * size, y |-> 2 * size]
    /\ last_call = Call("update", "adopted", "move")

BodyWellFormed ==
    ~game_over =>
        /\ Len(segments) >= 1
        /\ \A i, j \in 1..Len(segments) :
              i # j => segments[i] # segments[j]
        /\ \A i \in 1..Len(segments) :
              /\ segments[i].x >= 0 /\ segments[i].x < windowx
              /\ segments[i].y >= 0 /\ segments[i].y < windowy

\* a running five-cell snake that has turned back along its own body: the
\* head is beside the cell it would collide with on a further left turn
BodyWellFormed_Witness ==
    /\ ~game_over
    /\ Len(segments) = 5
    /\ last_call.res = "move"
    /\ segments[1] = [x |-> 11 * size, y |-> 9 * size]
    /\ segments[4] = [x |-> 10 * size, y |-> 9 * size]

\* C13: a toggle of the speed mode, by toggle_progressive_speed or by the P
\* key, flips progressive_speed and changes nothing else: body, direction,
\* input queue, apple, score, game_over and the accumulated time stay as
\* they are (so a second toggle restores the state).
ToggleFlipsOnlyMode ==
    [][last_call'.op = "toggle_progressive_speed" =>
         /\ progressive_speed' = ~progressive_speed
         /\ UNCHANGED <<segments, direction, input_buffer, apple, score,
                        game_over, last_update_time>>]_vars

\* the mode was switched to fixed in the middle of an interval, with an
\* input waiting
ToggleFlipsOnlyMode_Witness ==
    /\ last_call.op = "toggle_progressive_speed"
    /\ ~progressive_speed
    /\ last_update_time = 1
    /\ input_buffer # <<>>
    /\ score > 0

\* C14: an update call of a running game after which the accumulated time
\* is still below the current tick interval only adds the elapsed time to
\* the accumulator: body, direction, apple, score, game_over and the input
\* queue are unchanged.
EarlyUpdateIsNoop ==
    [][\A dt \in DtValues :
         (/\ UpdateCalled
          /\ update(dt)
          /\ ~game_over
          /\ TimeBelow(last_update_time + dt,
                       current_interval(progressive_speed, score)))
         => /\ last_update_time' = last_update_time + dt
            /\ UNCHANGED <<segments, direction, apple, score, game_over,
                           input_buffer, progressive_speed>>]_vars

\* an early update in fixed mode left the queued input where it was
EarlyUpdateIsNoop_Witness ==
    /\ last_call = Call("update", "none", "wait")
    /\ ~progressive_speed
    /\ last_update_time = 1
    /\ input_buffer # <<>>

\* C15: the respawn loop samples until it draws a cell that is neither on
\* the body nor the eaten apple: under fair sampling it ends when the
\* window has such a cell, and it never ends when the body covers every
\* cell of the window.
FreeCells ==
    { c \in Candidates(RespawnWindowX, RespawnWindowY) :
        \A i \in 1..Len(segments) : segments[i] # c }

RespawnEndsIffFreeCell ==
    /\ (last_call.res = "sampling" /\ FreeCells # {})
         ~> (last_call.res = "placed")
    /\ [](FreeCells = {} => last_call.res = "sampling")
    /\ [](last_call.res = "placed" => apple \in FreeCells)

\* the only free cell of the window was found after a rejected draw
RespawnEndsIffFreeCell_Witness ==
    /\ last_call = Call("gen_apple_coords", "retried", "placed")
    /\ Len(segments) = RespawnCols * RespawnRows - 1

CollisionKeepsHead ==
    [][(TickFired /\ game_over')
       => /\ segments' = <<Shifted(segments[1], direction')>> \o segments
          /\ score' = score
          /\ apple' = apple
          /\ last_call'.res = "collide"]_vars

\* the game ended with the head on a body cell that is not the tail
CollisionKeepsHead_Witness ==
    /\ game_over
    /\ last_call.res = "collide"
    /\ Len(segments) = 6
    /\ segments[1] = segments[5]

\* C18: one tick never turns the snake by 180 degrees, so the new head is
\* never the cell of the previous second segment.
NoReversalInOneTick ==
    [][TickFired
       => /\ direction' # Opposite(direction)
          /\ segments'[1] # segments[2]]_vars

\* a tick dequeued a direction and discarded it
NoReversalInOneTick_Witness ==
    /\ last_call.op = "update"
    /\ last_call.arg = "discarded"
    /\ ticks > 0

\* C19: an update whose accumulated time reaches the interval fires exactly
\* one tick, however many intervals have elapsed: the accumulator is reset
\* to zero, the head advances by one cell, and at most one queue entry is
\* consumed.
OneTickPerUpdate ==
    [][\A dt \in DtValues :
         (UpdateCalled /\ update(dt) /\ ~game_over
            /\ ~TimeBelow(last_update_time + dt,
                          current_interval(progressive_speed, score)))
         => /\ ticks' = ticks + 1
            /\ last_update_time' = 0
            /\ segments'[1] = Shifted(segments[1], direction')
            /\ segments'[2] = segments[1]
            /\ Len(segments') <= Len(segments) + 1
            /\ input_buffer' = IF input_buffer = <<>>
                                THEN <<>> ELSE Tail(input_buffer)]_vars

\* a tick fired after more than one interval had elapsed (the interval is
\* 2/3 of the smallest elapsed time beyond score 40) and left one of two
\* queued directions in the buffer
OneTickPerUpdate_Witness ==
    /\ score >= 40
    /\ progressive_speed
    /\ last_call.op = "update"
    /\ last_call.arg = "adopted"
    /\ last_update_time = 0
    /\ Len(input_buffer) = 1
    /\ ticks > MaxTicks - SpeedTicks

TypeOK ==
    /\ direction \in Directions
    /\ score \in Nat
    /\ game_over \in BOOLEAN
    /\ progressive_speed \in BOOLEAN
    /\ last_update_time \in Nat
    /\ ticks \in 0..MaxTicks
====
